---- MODULE Spec2Model ----
(***************************************************************************)
(* The Sketch Garden: the growth engine of GardenCanvas (growers, bottle   *)
(* plants, spawn history, drag session, bottle bounds) as a state machine. *)
(*                                                                         *)
(* Numbers.  maxLife and width of a grower are genome values divided by    *)
(* generation+1 (1, 2 or 3); they are kept exactly as integers in units of *)
(* 1/Scale.  baseWidth is given in tenths, so a grower's width is in units *)
(* of 1/(10*Scale).  Headings are in units of pi/4 (0 = east, 6 = up, the  *)
(* canvas y axis points down) and Cos/Sin are the matching compass steps.  *)
(* Math.random() and the noise field are nondeterministic inputs of Tick.  *)
(***************************************************************************)
EXTENDS Integers, Sequences, FiniteSets, TLC

VARIABLES
    growers,        \* growersRef.current
    bottlePlants,   \* bottlePlantsRef.current
    plantHistory,   \* plantHistoryRef.current
    bottleRect,     \* bottleRectRef.current: <<>> (null) or <<rect>>
    dragState,      \* dragStateRef.current: <<>> (null) or <<session>>
    settings,       \* the settings prop (the live genome)
    canvasLeft,     \* containerRef.current.getBoundingClientRect().left
    outCtxOk,       \* whether canvasOutsideRef.current.getContext('2d') yields a context
    nextId,         \* the next value uuid() returns
    clock,          \* frames run so far (saturating, see ClockCap)
    lastOp,         \* the handler that ran last and what it removed
    lim,            \* the bounds of the run: how many spawns, growers and frames,
                    \* and which random outcomes a frame may draw
    outside,        \* the marks drawn on canvasOutsideRef (the outside canvas)
    inside,         \* canvasInsideRef: the images the last composite drew
    clipboard       \* the last context-menu copy, <<>> or <<c>>: the canvas point
                    \* asked and the genome given to onSettingsCopied

vars == <<growers, bottlePlants, plantHistory, bottleRect, dragState, settings,
          canvasLeft, outCtxOk, nextId, clock, lastOp, lim, outside, inside, clipboard>>

----------------------------------------------------------------------------
(* Bounds of the model *)

MaxGrowers == 3
MaxSpawns == 1
MaxSpawnTick == 2
GrowGrowers == 4
GrowSpawns == 2
GrowTicks == 3
DragSpawns == 1
DragTicks == 1
MaxL == 3
ImportSpawns == 1
ImportTicks == 2
CopySpawns == 3
HistSpawns == 52
HistGrowers == 2
DownSpawns == 2
TermGrowers == 3
FrameSpawns == 3

(* Program constants *)

Scale == 6
Grace == 50
HistoryCap == 50
ClampMargin == 20
HitRadius == 40
HitHeight == 400
CopyRadius == 100
OutCtx == 0
BaseAngle == 6

----------------------------------------------------------------------------
(* Inputs *)

\* baseWidth in tenths; flowerProbability in percent
PlantTypes == {"VINE", "PALM", "GEOMETRIC", "UMBRELLA", "BERRY"}

GenomeA == [type |-> "VINE", stemColorStart |-> "#2d6a4f", baseWidth |-> 60,
            growthSpeed |-> 3, maxLife |-> 2, flowerProbability |-> 70]
GenomeB == [type |-> "BERRY", stemColorStart |-> "#6d597a", baseWidth |-> 1,
            growthSpeed |-> 1, maxLife |-> 1, flowerProbability |-> 0]

\* Values typed into the import field: the empty string, text that atob or
\* JSON.parse rejects, and encoded objects: a whole genome, one without
\* stemColorStart, one without type, one whose maxLife is below every valid
\* value
ImportValues ==
    {[kind |-> "empty", parsed |-> GenomeA],
     [kind |-> "garbage", parsed |-> GenomeA],
     [kind |-> "json", parsed |-> GenomeB],
     [kind |-> "json", parsed |-> [GenomeA EXCEPT !.stemColorStart = ""]],
     [kind |-> "json", parsed |-> [GenomeA EXCEPT !.type = ""]],
     [kind |-> "json", parsed |-> [GenomeA EXCEPT !.maxLife = -1]]}

\* Spawns and context-menu points of SpecCopy (canvas coordinates)
CopyInputs == {[x |-> 50, y |-> 100, g |-> GenomeA],
               [x |-> 150, y |-> 100, g |-> GenomeB],
               [x |-> 120, y |-> 100, g |-> [GenomeA EXCEPT !.growthSpeed = 1]]}
CopyPoints == {[x |-> 60, y |-> 100], [x |-> 100, y |-> 100], [x |-> 100, y |-> 160],
               [x |-> 135, y |-> 100], [x |-> 250, y |-> 100]}

\* The genomes the settings panel can produce from GenomeA
EditedGenomes == {[GenomeA EXCEPT !.maxLife = 3], [GenomeA EXCEPT !.growthSpeed = 1]}

SpawnInputs == {[x |-> 50, y |-> 100, g |-> GenomeA],
                [x |-> 150, y |-> 100, g |-> GenomeB]}
GrowInputs == {[x |-> 50, y |-> 100, g |-> GenomeA, inside |-> TRUE],
               [x |-> 150, y |-> 100, g |-> GenomeB, inside |-> TRUE],
               [x |-> 150, y |-> 100, g |-> GenomeB, inside |-> FALSE]}
\* Spawns of SpecTerm: a vine into the bottle, and a berry outside whose
\* branches are thinner than 0.1
TermInputs == {[g |-> GenomeA, inside |-> TRUE], [g |-> GenomeB, inside |-> FALSE]}
PtrXs == {60, 360}
\* Spawns into the bottle and pointer-down positions of SpecDown: on a plant,
\* 40 px beside it, under a plant that stands higher than the pointer, and
\* far from both
DownInputs == {[x |-> 50, y |-> 100], [x |-> 150, y |-> 40]}
DownXs == {60, 90, 160, 360}
Rects == {[left |-> 0, right |-> 300], [left |-> 400, right |-> 430]}
CanvasLefts == {0, 320}
Turns == {0, 1}

----------------------------------------------------------------------------
(* Helpers *)

Last(s) == s[Len(s)]
Front(s) == SubSeq(s, 1, Len(s) - 1)
Range(s) == {s[i] : i \in 1..Len(s)}
Abs(n) == IF n < 0 THEN -n ELSE n
Max(a, b) == IF a >= b THEN a ELSE b
Min(a, b) == IF a <= b THEN a ELSE b

\* Math.cos / Math.sin of a heading given in units of pi/4
Cos(h) == CASE h \in {0, 1, 7} -> 1 [] h \in {3, 4, 5} -> -1 [] OTHER -> 0
Sin(h) == CASE h \in {1, 2, 3} -> 1 [] h \in {5, 6, 7} -> -1 [] OTHER -> 0

----------------------------------------------------------------------------
(* createGrower *)

\* faulty variant: every generation gets the genome's whole maxLife
GrowerMaxLifeFlat(plantSettings, generation) == plantSettings.maxLife * Scale

\* maxLife: plantSettings.maxLife / (generation + 1), in units of 1/Scale
GrowerMaxLife(plantSettings, generation) ==
    (plantSettings.maxLife * Scale) \div (generation + 1)

\* width: plantSettings.baseWidth / (generation + 1), in units of 1/(10*Scale)
GrowerWidth(plantSettings, generation) ==
    (plantSettings.baseWidth * Scale) \div (generation + 1)

createGrower(id, x, y, plantSettings, ctx, generation, startAngle) ==
    [id |-> id, x |-> x, y |-> y, angle |-> startAngle, life |-> 0,
     maxLife |-> GrowerMaxLife(plantSettings, generation),
     width |-> GrowerWidth(plantSettings, generation),
     speed |-> plantSettings.growthSpeed,
     settings |-> plantSettings, generation |-> generation, ctx |-> ctx,
     hasAttemptedFlower |-> FALSE]

----------------------------------------------------------------------------
(* spawnPlant *)

\* faulty variant: the push without the shift
PushHistoryNoShift(h, item) == Append(h, item)

\* plantHistoryRef.current.push(...); if (length > 50) shift()
PushHistory(h, item) ==
    LET pushed == Append(h, item)
    IN  IF Len(pushed) > HistoryCap THEN Tail(pushed) ELSE pushed

\* The body of spawnPlant(x, y, s, isInsideBottle); offOk: whether the new
\* offscreen canvas yields a 2d context.
spawnPlant(x, y, s, isInsideBottle, offOk) ==
    /\ plantHistory' = PushHistory(plantHistory, [x |-> x, y |-> y, settings |-> s])
    /\ IF isInsideBottle
       THEN IF offOk
            THEN /\ bottlePlants' = Append(bottlePlants,
                        [id |-> nextId, originX |-> x, currentX |-> x, y |-> y,
                         canvas |-> {}, ctx |-> nextId, settings |-> s])
                 /\ growers' = Append(growers,
                        createGrower(nextId + 1, x, y, s, nextId, 0, BaseAngle))
                 /\ nextId' = nextId + 2
            ELSE UNCHANGED <<bottlePlants, growers, nextId>>
       ELSE IF outCtxOk
            THEN /\ growers' = Append(growers,
                        createGrower(nextId, x, y, s, OutCtx, 0, BaseAngle))
                 /\ nextId' = nextId + 1
                 /\ UNCHANGED bottlePlants
            ELSE UNCHANGED <<bottlePlants, growers, nextId>>

\* The bound on spawning: at most lim.spawns spawns, all within the first
\* lim.spawnTick frames, and never more than lim.growers growers.
SpawnAllowed ==
    /\ Len(plantHistory) < lim.spawns
    /\ clock < lim.spawnTick
    /\ Len(growers) < lim.growers

\* ref.spawn(x, y, overrideSettings, isInsideBottle); override: <<>> or <<genome>>
Spawn(x, y, override, isInsideBottle, offOk) ==
    /\ SpawnAllowed
    /\ spawnPlant(x, y, IF override = <<>> THEN settings ELSE override[1],
                  isInsideBottle, offOk)
    /\ lastOp' = [op |-> "spawn", removed |-> {},
                  ok |-> IF isInsideBottle THEN offOk ELSE outCtxOk]
    /\ UNCHANGED <<bottleRect, dragState, settings, canvasLeft, outCtxOk, clock, lim,
                   outside, inside, clipboard>>

----------------------------------------------------------------------------
(* undoLastBottlePlant, updateBottleRect, the clearTrigger effect *)

\* faulty variant: undo stops only the stem of the popped plant, not its branches
UndoKeepsBranches(g, popped) == g.ctx # popped.ctx \/ g.generation > 0

\* faulty variant: undo pops the plant and leaves the growers alone
UndoKeepsAll(g, popped) == TRUE

\* faulty variant: undo also stops the growers of the outside canvas
UndoKeepsBottled(g, popped) == g.ctx # popped.ctx /\ g.ctx # OutCtx

UndoKeeps(g, popped) == g.ctx # popped.ctx

undoLastBottlePlant ==
    /\ IF bottlePlants = <<>>
       THEN /\ UNCHANGED <<bottlePlants, growers>>
            /\ lastOp' = [op |-> "undo", removed |-> {}, ok |-> FALSE]
       ELSE LET popped == Last(bottlePlants)
            IN  /\ bottlePlants' = Front(bottlePlants)
                /\ growers' = SelectSeq(growers, LAMBDA g : UndoKeeps(g, popped))
                /\ lastOp' = [op |-> "undo",
                              removed |-> {g \in Range(growers) : ~UndoKeeps(g, popped)},
                              ok |-> TRUE]
    /\ UNCHANGED <<plantHistory, bottleRect, dragState, settings, canvasLeft,
                   outCtxOk, nextId, clock, lim,
                   outside, inside, clipboard>>

\* faulty variant: a rectangle registered again is taken inside the margin
BoundsAfterInset(rect) ==
    IF bottleRect = <<rect>>
    THEN <<[left |-> rect.left + ClampMargin, right |-> rect.right - ClampMargin]>>
    ELSE <<rect>>

\* bottleRectRef.current = rect
BoundsAfter(rect) == <<rect>>

updateBottleRect(rect) ==
    /\ bottleRect' = BoundsAfter(rect)
    /\ lastOp' = [op |-> "setBounds", removed |-> {}, ok |-> TRUE]
    /\ UNCHANGED <<growers, bottlePlants, plantHistory, dragState, settings,
                   canvasLeft, outCtxOk, nextId, clock, lim,
                   outside, inside, clipboard>>

\* faulty variant: clear stops every grower
ClearKeepsNone(g) == FALSE

ClearKeeps(g) == g.ctx # OutCtx

clearTrigger ==
    /\ growers' = IF outCtxOk THEN SelectSeq(growers, ClearKeeps) ELSE growers
    /\ lastOp' = [op |-> "clear",
                  removed |-> IF outCtxOk
                              THEN {g \in Range(growers) : ~ClearKeeps(g)} ELSE {},
                  ok |-> outCtxOk]
    /\ outside' = IF outCtxOk THEN {} ELSE outside
    /\ UNCHANGED <<bottlePlants, plantHistory, bottleRect, dragState, settings,
                   canvasLeft, outCtxOk, nextId, clock, lim, inside, clipboard>>

----------------------------------------------------------------------------
(* App: updateSettings / applyPreset, handleImport *)

\* setSettings(...): the settings prop becomes a new object
setSettings(g) ==
    /\ settings' = g
    /\ lastOp' = [op |-> "settings", removed |-> {}, ok |-> TRUE]
    /\ UNCHANGED <<growers, bottlePlants, plantHistory, bottleRect, dragState,
                   canvasLeft, outCtxOk, nextId, clock, lim, outside, inside,
                   clipboard>>

\* if (!value) return; atob and JSON.parse do not throw;
\* if (parsed.stemColorStart && parsed.type)
ImportAccepts(value) ==
    /\ value.kind = "json"
    /\ value.parsed.stemColorStart # ""
    /\ value.parsed.type # ""

\* handleImport(value); x, y: the bottom centre of the bottle element
handleImport(value, x, y, offOk) ==
    /\ IF ImportAccepts(value)
       THEN /\ settings' = value.parsed
            /\ SpawnAllowed
            /\ spawnPlant(x, y, value.parsed, TRUE, offOk)
       ELSE UNCHANGED <<settings, growers, bottlePlants, plantHistory, nextId>>
    /\ lastOp' = [op |-> "import", removed |-> {}, ok |-> ImportAccepts(value)]
    /\ UNCHANGED <<bottleRect, dragState, canvasLeft, outCtxOk, clock, lim,
                   outside, inside, clipboard>>

----------------------------------------------------------------------------
(* update: one animation frame *)

\* faulty variant: the test without the width
TerminalByAge(g) == g.life * Scale >= g.maxLife

\* life >= maxLife || grower.width < 0.1
Terminal(g) == g.life * Scale >= g.maxLife \/ g.width < Scale

\* faulty variant: the filter without the 50 frames of grace
KeepAliveNoGrace(g) == g.life * Scale < g.maxLife

\* faulty variant: the filter with <= for <
KeepAliveLate(g) == g.life * Scale <= g.maxLife + Grace * Scale

\* the filter of "Remove dead growers": g.life < g.maxLife + 50
KeepAlive(g) == g.life * Scale < g.maxLife + Grace * Scale

\* faulty variant: the branch guard off by one
MayBranchDeep(g) == g.generation < 3

\* grower.generation < 2 guards the branch trial
MayBranch(g) == g.generation < 2

\* the flower trial: drawn once, by a grower of generation < 2, and
\* Math.random() < settings.flowerProbability can hold
MayFlower(g) ==
    ~g.hasAttemptedFlower /\ g.generation < 2 /\ g.settings.flowerProbability > 0

\* The frame count saturates where the bounds stop reading it
ClockCap == IF lim.ticks = -1 THEN lim.spawnTick ELSE Max(lim.ticks, lim.spawnTick)

\* The random outcomes one grower consumes in a frame: turn, the change of
\* heading (wobble, noise curl, snap and relaxation together); branch, 0 for
\* no branch and +1/-1 for a branch to either side; leaf, whether a leaf is
\* drawn; flower, whether the flower is drawn.  A terminal grower moves
\* nothing, and the branch trial is drawn only when MayBranch.
Choices(g) ==
    IF Terminal(g)
    THEN [turn : {0}, branch : {0}, leaf : {FALSE},
          flower : IF MayFlower(g) THEN lim.flowers ELSE {FALSE}]
    ELSE [turn : lim.turns, branch : IF MayBranch(g) THEN lim.sides ELSE {0},
          leaf : lim.leaves, flower : {FALSE}]

RECURSIVE ChoiceSeqs(_)
ChoiceSeqs(gs) ==
    IF gs = <<>> THEN {<<>>}
    ELSE {<<c>> \o rest : c \in Choices(Head(gs)), rest \in ChoiceSeqs(Tail(gs))}

NewAngle(g, ch) == (g.angle + ch.turn + 8) % 8

\* faulty variant: the terminal branch never records the bloom attempt
StepGrowerNoFlag(g, ch) ==
    IF g.life * Scale >= g.maxLife \/ g.width < Scale
    THEN [g EXCEPT !.life = g.life + 1]
    ELSE LET a == (g.angle + ch.turn + 8) % 8
         IN  [g EXCEPT !.angle = a,
                       !.x = g.x + Cos(a) * g.speed,
                       !.y = g.y + Sin(a) * g.speed,
                       !.life = g.life + 1]

\* faulty variant: the terminal branch returns without grower.life++
StepGrowerFrozen(g, ch) ==
    IF g.life * Scale >= g.maxLife \/ g.width < Scale
    THEN [g EXCEPT !.hasAttemptedFlower = TRUE]
    ELSE LET a == (g.angle + ch.turn + 8) % 8
         IN  [g EXCEPT !.angle = a,
                       !.x = g.x + Cos(a) * g.speed,
                       !.y = g.y + Sin(a) * g.speed,
                       !.life = g.life + 1]

\* faulty variant: the terminal branch goes on advancing the position
StepGrowerDrift(g, ch) ==
    IF g.life * Scale >= g.maxLife \/ g.width < Scale
    THEN [g EXCEPT !.hasAttemptedFlower = TRUE, !.life = g.life + 1,
                   !.x = g.x + Cos(g.angle) * g.speed,
                   !.y = g.y + Sin(g.angle) * g.speed]
    ELSE LET a == (g.angle + ch.turn + 8) % 8
         IN  [g EXCEPT !.angle = a,
                       !.x = g.x + Cos(a) * g.speed,
                       !.y = g.y + Sin(a) * g.speed,
                       !.life = g.life + 1]

\* The forEach body for one grower: the grower as the frame leaves it
StepGrower(g, ch) ==
    IF Terminal(g)
    THEN [g EXCEPT !.hasAttemptedFlower = TRUE, !.life = g.life + 1]
    ELSE LET a == NewAngle(g, ch)
         IN  [g EXCEPT !.angle = a,
                       !.x = g.x + Cos(a) * g.speed,
                       !.y = g.y + Sin(a) * g.speed,
                       !.life = g.life + 1]

\* faulty variant: the branch is created from the settings prop, not from the
\* settings of the grower
BranchOfLive(g, ch) ==
    IF ~Terminal(g) /\ MayBranch(g) /\ ch.branch # 0
    THEN <<createGrower(0, g.x, g.y, settings, g.ctx, g.generation + 1,
                        (NewAngle(g, ch) + ch.branch + 8) % 8)>>
    ELSE <<>>

\* The branch the forEach body pushes for one grower (its id is given later):
\* created at grower.x, grower.y before they are advanced
BranchOf(g, ch) ==
    IF ~Terminal(g) /\ MayBranch(g) /\ ch.branch # 0
    THEN <<createGrower(0, g.x, g.y, g.settings, g.ctx, g.generation + 1,
                        (NewAngle(g, ch) + ch.branch + 8) % 8)>>
    ELSE <<>>

RECURSIVE Branches(_, _)
Branches(gs, chs) ==
    IF gs = <<>> THEN <<>>
    ELSE BranchOf(Head(gs), Head(chs)) \o Branches(Tail(gs), Tail(chs))

\* faulty variant: the body takes its heading from the grower before it in
\* the array, which an earlier callback of the same frame may have turned
StepAtFollow(arr, i, ch) ==
    LET g == IF i > 1 THEN [arr[i] EXCEPT !.angle = arr[i - 1].angle] ELSE arr[i]
    IN  [arr EXCEPT ![i] = StepGrower(g, ch)] \o BranchOf(g, ch)

\* One callback of the forEach on the array as the callbacks before it left
\* it: the body reads and writes the grower at index i and pushes its branch
StepAt(arr, i, ch) ==
    [arr EXCEPT ![i] = StepGrower(arr[i], ch)] \o BranchOf(arr[i], ch)

\* The forEach with its callbacks run in the order given, a sequence of
\* indices of the growers that were live when it began
RECURSIVE ForEachIn(_, _, _)
ForEachIn(arr, chs, order) ==
    IF order = <<>> THEN arr
    ELSE ForEachIn(StepAt(arr, Head(order), chs[Head(order)]), chs, Tail(order))

\* faulty variant: the loop also visits the branches pushed during it, as a
\* for loop over the live length would
AfterForEachVisitsNew(gs, chs, firstId) ==
    LET kids == Branches(gs, chs)
        still == [turn |-> 0, branch |-> 0, leaf |-> FALSE, flower |-> FALSE]
    IN  [i \in 1..Len(gs) |-> StepGrower(gs[i], chs[i])]
        \o [k \in 1..Len(kids) |->
                StepGrower([kids[k] EXCEPT !.id = firstId + k - 1], still)]

\* growersRef.current after the forEach: the stepped growers, then the
\* branches pushed during it (which the forEach does not visit)
AfterForEach(gs, chs, firstId) ==
    LET kids == Branches(gs, chs)
    IN  [i \in 1..Len(gs) |-> StepGrower(gs[i], chs[i])]
        \o [k \in 1..Len(kids) |-> [kids[k] EXCEPT !.id = firstId + k - 1]]

\* What the forEach body draws on grower.ctx for one grower: a terminal
\* grower its flower, a growing one the stem segment from its position to the
\* next and a leaf at its position
Mark(kind, x, y, x2, y2) == [kind |-> kind, x |-> x, y |-> y, x2 |-> x2, y2 |-> y2]

Marks(g, ch) ==
    IF Terminal(g)
    THEN IF ch.flower THEN {Mark("flower", g.x, g.y, g.x, g.y)} ELSE {}
    ELSE LET a == NewAngle(g, ch)
         IN  {Mark("stem", g.x, g.y, g.x + Cos(a) * g.speed, g.y + Sin(a) * g.speed)}
             \cup (IF ch.leaf THEN {Mark("leaf", g.x, g.y, g.x, g.y)} ELSE {})

\* everything the forEach draws on the context ctx
Drawn(gs, chs, ctx) ==
    UNION {Marks(gs[i], chs[i]) : i \in {j \in 1..Len(gs) : gs[j].ctx = ctx}}

\* faulty variant: the frame repaints the outside canvas from nothing, as it
\* does the inside one
OutsideAfterRepaint(gs, chs) == Drawn(gs, chs, OutCtx)

\* the outside canvas after the forEach: the marks are drawn over what is there
OutsideAfter(gs, chs) == outside \cup Drawn(gs, chs, OutCtx)

\* faulty variant: every plant canvas is drawn where it was spawned
CompositeAtOrigin(plants) ==
    [k \in 1..Len(plants) |->
        [plant |-> plants[k].id, dx |-> 0, dy |-> 0, image |-> plants[k].canvas]]

\* "Composite Bottle Plants": clearRect, then drawImage(plant.canvas, dx, 0)
\* for each plant in order
Composite(plants) ==
    [k \in 1..Len(plants) |->
        [plant |-> plants[k].id, dx |-> plants[k].currentX - plants[k].originX,
         dy |-> 0, image |-> plants[k].canvas]]

update(chs) ==
    LET all == AfterForEach(growers, chs, nextId)
    IN  /\ lim.ticks = -1 \/ clock < lim.ticks
        /\ Len(all) <= lim.growers
        /\ growers' = SelectSeq(all, KeepAlive)
        /\ nextId' = nextId + (Len(all) - Len(growers))
        /\ clock' = IF clock < ClockCap THEN clock + 1 ELSE clock
        /\ lastOp' = [op |-> "tick", removed |-> {g \in Range(all) : ~KeepAlive(g)},
                      ok |-> TRUE]
        /\ outside' = OutsideAfter(growers, chs)
        /\ bottlePlants' = [k \in 1..Len(bottlePlants) |->
               [bottlePlants[k] EXCEPT
                   !.canvas = @ \cup Drawn(growers, chs, bottlePlants[k].ctx)]]
        /\ inside' = Composite(bottlePlants')
        /\ UNCHANGED <<plantHistory, bottleRect, dragState, settings,
                       canvasLeft, outCtxOk, lim, clipboard>>

Tick == \E chs \in ChoiceSeqs(growers) : update(chs)

----------------------------------------------------------------------------
(* Pointer handlers *)

\* faulty variant: the hit test with <= for <
HitWide(p, x, y) == Abs(x - p.currentX) <= HitRadius /\ y < p.y /\ y > p.y - HitHeight

\* the find() predicate of handlePointerDown
Hit(p, x, y) == Abs(x - p.currentX) < HitRadius /\ y < p.y /\ y > p.y - HitHeight

\* Array.prototype.find over the indices whose element satisfies the
\* predicate: the first of them, 0 when there is none
FindIndex(hits) ==
    IF hits = {} THEN 0 ELSE CHOOSE i \in hits : \A j \in hits : i <= j

\* bottlePlantsRef.current.find(Hit) as <<>> (undefined) or <<plant>>
FindClicked(x, y) ==
    LET i == FindIndex({j \in 1..Len(bottlePlants) : Hit(bottlePlants[j], x, y)})
    IN  IF i = 0 THEN <<>> ELSE <<bottlePlants[i]>>

\* handlePointerDown with e.button = 0
handlePointerDown(clientX, clientY) ==
    LET x == clientX - canvasLeft
        y == clientY
        clickedPlant == FindClicked(x, y)
    IN  /\ IF clickedPlant # <<>>
           THEN /\ dragState' = <<[plantId |-> clickedPlant[1].id, startX |-> x,
                                   plantStartX |-> clickedPlant[1].currentX]>>
                /\ UNCHANGED <<growers, bottlePlants, plantHistory, nextId>>
           ELSE /\ SpawnAllowed
                /\ spawnPlant(x, y, settings, FALSE, FALSE)
                /\ UNCHANGED dragState
        /\ lastOp' = [op |-> "down", removed |-> {}, ok |-> clickedPlant # <<>>]
        /\ UNCHANGED <<bottleRect, settings, canvasLeft, outCtxOk, clock, lim,
                   outside, inside, clipboard>>

\* faulty variant: the clamp without the 20 px margin
ClampNoMargin(bottleLeft, bottleRight, newX) ==
    Max(bottleLeft, Min(bottleRight, newX))

\* Math.max(bottleLeft + 20, Math.min(bottleRight - 20, newX))
Clamp(bottleLeft, bottleRight, newX) ==
    Max(bottleLeft + ClampMargin, Min(bottleRight - ClampMargin, newX))

\* the value handlePointerMove writes to plant.currentX
DraggedX(drag, x) ==
    LET newX == drag.plantStartX + (x - drag.startX)
    IN  IF bottleRect # <<>>
        THEN Clamp(bottleRect[1].left - canvasLeft, bottleRect[1].right - canvasLeft, newX)
        ELSE newX

\* the drag branch of handlePointerMove: bottlePlantsRef.current afterwards
DragTo(x) ==
    LET k == FindIndex({j \in 1..Len(bottlePlants) :
                           bottlePlants[j].id = dragState[1].plantId})
    IN  IF k = 0 THEN bottlePlants
        ELSE [bottlePlants EXCEPT ![k].currentX = DraggedX(dragState[1], x)]

\* handlePointerMove; buttons1: e.buttons === 1; paint: Math.random() > 0.6
handlePointerMove(clientX, clientY, buttons1, paint) ==
    LET x == clientX - canvasLeft
        y == clientY
    IN  /\ IF dragState # <<>>
           THEN /\ bottlePlants' = DragTo(x)
                /\ UNCHANGED <<growers, plantHistory, nextId>>
           ELSE IF buttons1 /\ paint
                THEN /\ SpawnAllowed
                     /\ spawnPlant(x, y, settings, FALSE, FALSE)
                ELSE UNCHANGED <<growers, bottlePlants, plantHistory, nextId>>
        /\ lastOp' = [op |-> "move", removed |-> {}, ok |-> dragState # <<>>]
        /\ UNCHANGED <<dragState, bottleRect, settings, canvasLeft, outCtxOk, clock, lim,
                   outside, inside, clipboard>>

\* dx*dx + dy*dy of a history item and a point.  Math.sqrt is increasing, so
\* dist < minDist is compared on the squares
DistSq(item, x, y) == (item.x - x) * (item.x - x) + (item.y - y) * (item.y - y)

\* faulty variant: the loop starts from minDist = Infinity, so the nearest
\* item wins however far it is
ScanHistoryNoRadius(h, x, y, closest, minSq) ==
    IF h = <<>> THEN closest
    ELSE <<h[CHOOSE i \in 1..Len(h) : \A j \in 1..Len(h) :
                \/ DistSq(h[i], x, y) < DistSq(h[j], x, y)
                \/ DistSq(h[i], x, y) = DistSq(h[j], x, y) /\ i <= j]>>

\* faulty variant: the loop keeps any item inside the radius, without
\* lowering minDist, so the last such item wins
ScanHistoryLast(h, x, y, closest, minSq) ==
    LET near == {i \in 1..Len(h) : DistSq(h[i], x, y) < CopyRadius * CopyRadius}
    IN  IF near = {} THEN closest
        ELSE <<h[CHOOSE i \in near : \A j \in near : j <= i]>>

\* the for loop of handleContextMenu from the state (closest, minDist):
\* closest is <<>> (null) or <<item>>, minSq is minDist squared
RECURSIVE ScanHistory(_, _, _, _, _)
ScanHistory(h, x, y, closest, minSq) ==
    IF h = <<>> THEN closest
    ELSE IF DistSq(Head(h), x, y) < minSq
         THEN ScanHistory(Tail(h), x, y, <<Head(h)>>, DistSq(Head(h), x, y))
         ELSE ScanHistory(Tail(h), x, y, closest, minSq)

\* handleContextMenu: onSettingsCopied(closest ? closest.settings : settings)
handleContextMenu(clientX, clientY) ==
    LET x == clientX - canvasLeft
        y == clientY
        closest == ScanHistory(plantHistory, x, y, <<>>, CopyRadius * CopyRadius)
    IN  /\ clipboard' = <<[x |-> x, y |-> y,
                           genome |-> IF closest # <<>> THEN closest[1].settings
                                      ELSE settings]>>
        /\ lastOp' = [op |-> "copy", removed |-> {}, ok |-> closest # <<>>]
        /\ UNCHANGED <<growers, bottlePlants, plantHistory, bottleRect, dragState,
                       settings, canvasLeft, outCtxOk, nextId, clock, lim,
                       outside, inside>>

\* handlePointerUp (also bound to pointerleave)
handlePointerUp ==
    /\ dragState' = <<>>
    /\ lastOp' = [op |-> "up", removed |-> {}, ok |-> dragState # <<>>]
    /\ UNCHANGED <<growers, bottlePlants, plantHistory, bottleRect, settings,
                   canvasLeft, outCtxOk, nextId, clock, lim,
                   outside, inside, clipboard>>

----------------------------------------------------------------------------
(* The system *)

InitState ==
    /\ growers = <<>>
    /\ bottlePlants = <<>>
    /\ plantHistory = <<>>
    /\ bottleRect = <<>>
    /\ dragState = <<>>
    /\ nextId = 1
    /\ clock = 0
    /\ lastOp = [op |-> "init", removed |-> {}, ok |-> TRUE]
    /\ outside = {}
    /\ inside = <<>>
    /\ clipboard = <<>>

\* Spec: every operation over whole lifetimes (no bound on the frames), with
\* MaxSpawns spawns in the first MaxSpawnTick frames and few pointer inputs.
Init ==
    /\ InitState
    /\ settings = GenomeA
    /\ canvasLeft = 320
    /\ outCtxOk = TRUE
    /\ lim = [spawns |-> MaxSpawns, growers |-> MaxGrowers,
              spawnTick |-> MaxSpawnTick, ticks |-> -1,
              turns |-> {0}, sides |-> {0, 1},
              leaves |-> {FALSE}, flowers |-> {TRUE}]

\* spawn(x, y, genome, intoBottle): a vine into the bottle or a berry outside
\* (a pointer-down that misses every plant spawns a vine outside)
DoSpawn ==
    \/ Spawn(50, 100, <<GenomeA>>, TRUE, TRUE)
    \/ Spawn(50, 100, <<GenomeB>>, FALSE, TRUE)

DoSetBounds == updateBottleRect([left |-> 320, right |-> 620])

DoPointerDown == handlePointerDown(canvasLeft + 60, 50)

DoPointerMove ==
    \E buttons1 \in BOOLEAN :
        handlePointerMove(canvasLeft + 60, 50, buttons1, TRUE)

Next ==
    \/ DoSpawn
    \/ undoLastBottlePlant
    \/ DoSetBounds
    \/ clearTrigger
    \/ Tick
    \/ DoPointerDown
    \/ DoPointerMove
    \/ handlePointerUp

Spec == Init /\ [][Next]_vars

----------------------------------------------------------------------------
(* SpecGrow: spawning, branching, undo and clear over the first GrowTicks
   frames, with GrowSpawns spawns and branches drawn to either side. *)

InitGrow ==
    /\ InitState
    /\ settings = GenomeA
    /\ canvasLeft = 320
    /\ outCtxOk = TRUE
    /\ lim = [spawns |-> GrowSpawns, growers |-> GrowGrowers,
              spawnTick |-> GrowTicks, ticks |-> GrowTicks,
              turns |-> {0}, sides |-> {-1, 0, 1},
              leaves |-> {FALSE}, flowers |-> {TRUE}]

DoSpawnGrow ==
    \E in \in GrowInputs : Spawn(in.x, in.y, <<in.g>>, in.inside, TRUE)

NextGrow ==
    \/ DoSpawnGrow
    \/ undoLastBottlePlant
    \/ clearTrigger
    \/ Tick

SpecGrow == InitGrow /\ [][NextGrow]_vars

----------------------------------------------------------------------------
(* SpecDrag: spawning, dragging, bounds and undo with every pointer position,
   bounds rectangle and canvas offset, and surfaces that may fail; at most
   DragTicks frames run. *)

InitDrag ==
    /\ InitState
    /\ settings = GenomeA
    /\ canvasLeft \in CanvasLefts
    /\ outCtxOk \in BOOLEAN
    /\ lim = [spawns |-> DragSpawns, growers |-> MaxGrowers,
              spawnTick |-> DragTicks, ticks |-> DragTicks,
              turns |-> {0}, sides |-> {0},
              leaves |-> {FALSE}, flowers |-> {TRUE}]

DoSpawnDrag ==
    \E in \in SpawnInputs, isInsideBottle \in BOOLEAN, offOk \in BOOLEAN :
        Spawn(in.x, in.y, <<>>, isInsideBottle, offOk)

DoSetBoundsDrag == \E r \in Rects : updateBottleRect(r)

DoPointerDownDrag == \E dx \in PtrXs : handlePointerDown(canvasLeft + dx, 50)

DoPointerMoveDrag ==
    \E dx \in PtrXs, buttons1 \in BOOLEAN :
        handlePointerMove(canvasLeft + dx, 50, buttons1, TRUE)

NextDrag ==
    \/ DoSpawnDrag
    \/ undoLastBottlePlant
    \/ DoSetBoundsDrag
    \/ Tick
    \/ DoPointerDownDrag
    \/ DoPointerMoveDrag
    \/ handlePointerUp

SpecDrag == InitDrag /\ [][NextDrag]_vars

----------------------------------------------------------------------------
(* SpecA: one spawn on the outside canvas of a genome of maxLife 1..MaxL,
   then frames only, none of which draws a branch. *)

InitA ==
    /\ InitState
    /\ settings \in {[GenomeA EXCEPT !.maxLife = L] : L \in 1..MaxL}
    /\ canvasLeft = 320
    /\ outCtxOk = TRUE
    /\ lim = [spawns |-> 1, growers |-> MaxGrowers,
              spawnTick |-> 1, ticks |-> MaxL + Grace + 2,
              turns |-> Turns, sides |-> {0},
              leaves |-> {FALSE}, flowers |-> {TRUE}]

DoSpawnA == Spawn(100, 100, <<settings>>, FALSE, TRUE)

NextA ==
    \/ DoSpawnA
    \/ Tick

SpecA == InitA /\ [][NextA]_vars

----------------------------------------------------------------------------
(* SpecImport: imports of every value, edits of the live genome and spawns
   with the live genome, over the first ImportTicks frames. *)

InitImport ==
    /\ InitState
    /\ settings = GenomeA
    /\ canvasLeft = 320
    /\ outCtxOk = TRUE
    /\ lim = [spawns |-> ImportSpawns, growers |-> MaxGrowers,
              spawnTick |-> ImportTicks, ticks |-> ImportTicks,
              turns |-> {0}, sides |-> {0, 1},
              leaves |-> {FALSE}, flowers |-> {TRUE}]

DoImport ==
    \E value \in ImportValues, offOk \in BOOLEAN : handleImport(value, 150, 100, offOk)

DoSettings == \E g \in EditedGenomes \cup {GenomeA} : setSettings(g)

DoSpawnLive == \E isInsideBottle \in BOOLEAN : Spawn(50, 100, <<>>, isInsideBottle, TRUE)

NextImport ==
    \/ DoImport
    \/ DoSettings
    \/ DoSpawnLive
    \/ Tick

SpecImport == InitImport /\ [][NextImport]_vars

----------------------------------------------------------------------------
(* SpecCopy: up to CopySpawns spawns on the outside canvas and context-menu
   copies at every point of CopyPoints; no frame runs. *)

InitCopy ==
    /\ InitState
    /\ settings = [GenomeA EXCEPT !.maxLife = 3]
    /\ canvasLeft \in CanvasLefts
    /\ outCtxOk = TRUE
    /\ lim = [spawns |-> CopySpawns, growers |-> CopySpawns + 1,
              spawnTick |-> 1, ticks |-> 0,
              turns |-> {0}, sides |-> {0},
              leaves |-> {FALSE}, flowers |-> {TRUE}]

DoSpawnCopy == \E in \in CopyInputs : Spawn(in.x, in.y, <<in.g>>, FALSE, TRUE)

DoContextMenu == \E p \in CopyPoints : handleContextMenu(canvasLeft + p.x, p.y)

NextCopy ==
    \/ DoSpawnCopy
    \/ DoContextMenu

SpecCopy == InitCopy /\ [][NextCopy]_vars

----------------------------------------------------------------------------
(* SpecHist: HistSpawns spawns, more than the history holds, the n-th at
   x = n, into the bottle or outside, with surfaces that may fail (most of
   them do: at most HistGrowers units come to be); no frame runs. *)

InitHist ==
    /\ InitState
    /\ settings = GenomeA
    /\ canvasLeft = 320
    /\ outCtxOk = TRUE
    /\ lim = [spawns |-> HistoryCap + 1, growers |-> HistGrowers,
              spawnTick |-> 1, ticks |-> 0,
              turns |-> {0}, sides |-> {0},
              leaves |-> {FALSE}, flowers |-> {TRUE}]

\* the number of spawns so far: the x of the latest
SpawnsSoFar == IF plantHistory = <<>> THEN 0 ELSE Last(plantHistory).x

DoSpawnHist ==
    \E isInsideBottle \in BOOLEAN, offOk \in BOOLEAN :
        /\ SpawnsSoFar < HistSpawns
        /\ Spawn(SpawnsSoFar + 1, 100, <<GenomeA>>, isInsideBottle, offOk)

NextHist == DoSpawnHist

SpecHist == InitHist /\ [][NextHist]_vars

----------------------------------------------------------------------------
(* SpecDown: spawns into the bottle, undo, and pointer-down, pointer-move
   and pointer-up at the positions of DownXs, with surfaces that may fail;
   no frame runs. *)

InitDown ==
    /\ InitState
    /\ settings = GenomeA
    /\ canvasLeft \in CanvasLefts
    /\ outCtxOk \in BOOLEAN
    /\ lim = [spawns |-> DownSpawns, growers |-> DownSpawns + 1,
              spawnTick |-> 1, ticks |-> 0,
              turns |-> {0}, sides |-> {0},
              leaves |-> {FALSE}, flowers |-> {TRUE}]

DoSpawnDown ==
    \E in \in DownInputs, offOk \in BOOLEAN : Spawn(in.x, in.y, <<>>, TRUE, offOk)

DoPointerDownAt == \E dx \in DownXs : handlePointerDown(canvasLeft + dx, 50)

DoPointerMoveAt ==
    \E dx \in DownXs, buttons1 \in BOOLEAN :
        handlePointerMove(canvasLeft + dx, 50, buttons1, TRUE)

NextDown ==
    \/ DoSpawnDown
    \/ undoLastBottlePlant
    \/ DoPointerDownAt
    \/ DoPointerMoveAt
    \/ handlePointerUp

SpecDown == InitDown /\ [][NextDown]_vars

----------------------------------------------------------------------------
(* SpecTerm: one spawn before the first frame, then frames without bound,
   with undo and clear: whole lifetimes of a stem and its branches, with
   headings that turn, a leaf at every growing step and branches to one
   side. *)

InitTerm ==
    /\ InitState
    /\ settings = GenomeA
    /\ canvasLeft = 320
    /\ outCtxOk = TRUE
    /\ lim = [spawns |-> 1, growers |-> TermGrowers,
              spawnTick |-> 1, ticks |-> -1,
              turns |-> Turns, sides |-> {0, 1},
              leaves |-> {TRUE}, flowers |-> {TRUE}]

DoSpawnTerm == \E in \in TermInputs : Spawn(50, 100, <<in.g>>, in.inside, TRUE)

NextTerm ==
    \/ DoSpawnTerm
    \/ undoLastBottlePlant
    \/ clearTrigger
    \/ Tick

SpecTerm == InitTerm /\ [][NextTerm]_vars

----------------------------------------------------------------------------
(* SpecFrame: FrameSpawns spawns into the bottle and outside before the
   first frame, one frame that may branch, and undo, clear, set-bounds and a
   pointer-down on the first plant in any order around it. *)

InitFrame ==
    /\ InitState
    /\ settings = GenomeA
    /\ canvasLeft = 320
    /\ outCtxOk \in BOOLEAN
    /\ lim = [spawns |-> FrameSpawns, growers |-> FrameSpawns + 1,
              spawnTick |-> 1, ticks |-> 1,
              turns |-> {0}, sides |-> {0, 1},
              leaves |-> {FALSE}, flowers |-> {TRUE}]

DoSpawnFrame ==
    \E in \in GrowInputs : Spawn(in.x, in.y, <<in.g>>, in.inside, TRUE)

NextFrame ==
    \/ DoSpawnFrame
    \/ undoLastBottlePlant
    \/ clearTrigger
    \/ DoSetBounds
    \/ DoPointerDown
    \/ handlePointerUp
    \/ Tick

SpecFrame == InitFrame /\ [][NextFrame]_vars

----------------------------------------------------------------------------
(* SpecLive: SpecTerm with the frames kept running: update ends by asking
   for the next animation frame, so a frame that can run does run. *)

SpecLive == InitTerm /\ [][NextTerm]_vars /\ WF_vars(Tick)

----------------------------------------------------------------------------
(* Vocabulary of the properties *)

Ids(gs) == {gs[i].id : i \in 1..Len(gs)}

\* age >= maxAge + 50, for an age given in frames
PastGrace(g, age) == age * Scale >= g.maxLife + Grace * Scale

\* TERMINAL: age >= maxAge or width < 0.1
IsTerminal(g) == g.life * Scale >= g.maxLife \/ g.width < Scale

\* the step removed g by the frame's filter, its age then past the grace
RemovedByTick(g) == lastOp'.op = "tick" /\ PastGrace(g, g.life + 1)

\* the step removed g by undoing the newest bottle plant, whose surface g targets
RemovedByUndo(g) ==
    /\ lastOp'.op = "undo"
    /\ bottlePlants # <<>>
    /\ g.ctx = Last(bottlePlants).ctx

\* the step removed g by the clear command, g targeting the outside canvas
RemovedByClear(g) == lastOp'.op = "clear" /\ g.ctx = OutCtx

NoneLiveIsPastGrace ==
    lastOp'.op = "tick" => \A g \in Range(growers') : ~PastGrace(g, g.life)

----------------------------------------------------------------------------
(* C1 *)

\* C1 as stated: a live unit leaves the live set only at the end of a frame
\* in which its age is >= maxAge+50 or by an undo() of the plant whose surface
\* it targets; and no unit past the grace is live after a frame.
C1_AsStated ==
    [][/\ \A g \in Range(growers) :
             g.id \notin Ids(growers') => RemovedByTick(g) \/ RemovedByUndo(g)
       /\ NoneLiveIsPastGrace]_vars

\* C1 amended: a live unit leaves the live set only in one of three ways: at
\* the end of a frame in which its age is >= maxAge+50, by an undo() of the
\* plant whose surface it targets, or by the clear command when it targets the
\* outside canvas; and no unit past the grace is live after a frame.
C1_Removal ==
    [][/\ \A g \in Range(growers) :
             g.id \notin Ids(growers') =>
                RemovedByTick(g) \/ RemovedByUndo(g) \/ RemovedByClear(g)
       /\ NoneLiveIsPastGrace]_vars

\* a frame has just removed a unit whose age reached maxAge+50
C1_Witness ==
    /\ lastOp.op = "tick"
    /\ \E g \in lastOp.removed : PastGrace(g, g.life) /\ ~PastGrace(g, g.life - 1)

----------------------------------------------------------------------------
(* C4 *)

\* C4: the bloom-attempted flag of a unit never goes back to false, and it
\* goes from false to true exactly in a frame that steps the unit while it is
\* TERMINAL; a new unit starts with the flag false.
C4_BloomOnce ==
    [][/\ \A g \in Range(growers) : \A h \in Range(growers') :
             h.id = g.id =>
                /\ g.hasAttemptedFlower => h.hasAttemptedFlower
                /\ ~g.hasAttemptedFlower =>
                      (h.hasAttemptedFlower <=> (lastOp'.op = "tick" /\ IsTerminal(g)))
       /\ \A h \in Range(growers') :
             h.id \notin Ids(growers) => ~h.hasAttemptedFlower]_vars

\* a unit that attempted its bloom when it became TERMINAL is deep in its grace
C4_Witness ==
    \E g \in Range(growers) :
        /\ g.hasAttemptedFlower
        /\ g.life * Scale >= g.maxLife + (Grace - 1) * Scale

----------------------------------------------------------------------------
(* C8 *)

\* C8: a frame adds exactly 1 to the age of every unit that was live when it
\* began, growing or terminal, kept or removed at its end; no other operation
\* changes the age of a unit.
C8_AgeStep ==
    [][/\ \A g \in Range(growers) : \A h \in Range(growers') :
             h.id = g.id =>
                h.life = g.life + (IF lastOp'.op = "tick" THEN 1 ELSE 0)
       /\ lastOp'.op = "tick" =>
             \A r \in lastOp'.removed : \E g \in Range(growers) :
                g.id = r.id /\ r.life = g.life + 1]_vars

\* a frame has just stepped a unit that was growing (it has never been stepped
\* while terminal) and a unit that was terminal
C8_Witness ==
    /\ lastOp.op = "tick"
    /\ \E g, h \in Range(growers) :
          /\ g.life >= 1 /\ ~g.hasAttemptedFlower
          /\ h.life >= 2 /\ h.hasAttemptedFlower

----------------------------------------------------------------------------
(* C2 *)

\* C2: when a bottle plant exists, undo() removes exactly the most recently
\* created one, and right after it no live unit of any generation targets the
\* removed plant's surface.
C2_UndoNewest ==
    [][(lastOp'.op = "undo" /\ bottlePlants # <<>>) =>
          /\ bottlePlants' = Front(bottlePlants)
          /\ \A p \in Range(bottlePlants') : p.id < Last(bottlePlants).id
          /\ \A g \in Range(growers') : g.ctx # Last(bottlePlants).ctx]_vars

\* undo() has just removed the newer of two bottle plants together with its
\* stem and a branch of it, while the units of the older plant stay live
C2_Witness ==
    /\ lastOp.op = "undo"
    /\ Len(bottlePlants) = 1
    /\ \E g, h \in lastOp.removed : g.generation = 0 /\ h.generation > 0
    /\ \E g \in Range(growers) : g.ctx = bottlePlants[1].ctx

----------------------------------------------------------------------------
(* C3 *)

\* the unit k was just created by a branch event of a unit of generation < 2
BranchedFrom(k, p) ==
    /\ p.generation < 2
    /\ k.generation = p.generation + 1
    /\ k.ctx = p.ctx /\ k.settings = p.settings
    /\ k.x = p.x /\ k.y = p.y

\* C3: every live unit has generation 0, 1 or 2; a unit created in a frame is
\* the branch of a unit of generation < 2 and has its parent's generation + 1;
\* every other new unit is a spawned stem of generation 0.
C3_Generations ==
    /\ [](\A g \in Range(growers) : g.generation \in {0, 1, 2})
    /\ [][\A k \in Range(growers') :
             k.id \notin Ids(growers) =>
                IF lastOp'.op = "tick"
                THEN \E p \in Range(growers) : BranchedFrom(k, p)
                ELSE k.generation = 0]_vars

\* a frame has just stepped a growing unit of generation 2
C3_Witness ==
    /\ lastOp.op = "tick"
    /\ \E g \in Range(growers) :
          g.generation = 2 /\ g.life >= 1 /\ ~g.hasAttemptedFlower

----------------------------------------------------------------------------
(* C7 *)

\* C7: a unit of generation g has maxAge = maxLife/(g+1) and width =
\* baseWidth/(g+1) of its genome, both unchanged while it lives, and among the
\* units of one genome a higher generation has a smaller maxAge and width.
C7_Scaling ==
    /\ [](\A g \in Range(growers) :
            /\ g.maxLife * (g.generation + 1) = g.settings.maxLife * Scale
            /\ g.width * (g.generation + 1) = g.settings.baseWidth * Scale
            /\ \A h \in Range(growers) :
                  (h.settings = g.settings /\ g.generation < h.generation) =>
                     (h.maxLife < g.maxLife /\ h.width < g.width))
    /\ [][\A g \in Range(growers) : \A h \in Range(growers') :
             h.id = g.id => (h.maxLife = g.maxLife /\ h.width = g.width)]_vars

\* units of generation 0, 1 and 2 of one genome are live together
C7_Witness ==
    \E a, b, c \in Range(growers) :
        /\ a.generation = 0 /\ b.generation = 1 /\ c.generation = 2
        /\ a.settings = b.settings /\ b.settings = c.settings
        /\ a.life >= 2

----------------------------------------------------------------------------
(* C5 *)

\* the step is a pointer-move of an active drag session whose plant exists,
\* with bounds registered
DragMoveInBounds ==
    /\ lastOp'.op = "move"
    /\ dragState # <<>>
    /\ bottleRect # <<>>
    /\ \E p \in Range(bottlePlants) : p.id = dragState[1].plantId

\* the dragged plant's currentX after the step, in pointer (client) coordinates
DraggedClientX ==
    LET p == CHOOSE q \in Range(bottlePlants') : q.id = dragState[1].plantId
    IN  p.currentX + canvasLeft

\* C5 as stated: after such a pointer-move the plant's currentX lies in
\* [bounds.left+20, bounds.right-20], for every bounds rectangle.
C5_AsStated ==
    [][DragMoveInBounds =>
          /\ bottleRect[1].left + ClampMargin <= DraggedClientX
          /\ DraggedClientX <= bottleRect[1].right - ClampMargin]_vars

\* C5 amended: for every bounds rectangle at least 40 wide the plant's currentX
\* lies in [bounds.left+20, bounds.right-20] after such a pointer-move, and for
\* a narrower one it is bounds.left+20; bounds {left:0,right:300} on a canvas at
\* offset 0 and an implied newX of 350 give currentX = 280.
C5_Clamped ==
    [][DragMoveInBounds =>
          /\ IF bottleRect[1].right - bottleRect[1].left >= 2 * ClampMargin
             THEN /\ bottleRect[1].left + ClampMargin <= DraggedClientX
                  /\ DraggedClientX <= bottleRect[1].right - ClampMargin
             ELSE DraggedClientX = bottleRect[1].left + ClampMargin
          /\ \A dx \in PtrXs :
                (/\ canvasLeft = 0
                 /\ bottleRect[1] = [left |-> 0, right |-> 300]
                 /\ dragState[1].plantStartX + (dx - dragState[1].startX) = 350
                 /\ bottlePlants' = DragTo(dx))
                => DraggedClientX = 280]_vars

\* a drag with bounds {left:0,right:300} has just been clamped to 280
C5_Witness ==
    /\ lastOp.op = "move" /\ lastOp.ok
    /\ canvasLeft = 0
    /\ bottleRect = <<[left |-> 0, right |-> 300]>>
    /\ dragState # <<>>
    /\ \E p \in Range(bottlePlants) :
          p.id = dragState[1].plantId /\ p.currentX = 280 /\ p.originX = 50

----------------------------------------------------------------------------
(* C9 *)

\* C9 as stated: when the plant of an active drag session no longer exists,
\* the next pointer-move or pointer-up ends the session and changes no plant.
C9_AsStated ==
    [][(/\ dragState # <<>>
        /\ \A p \in Range(bottlePlants) : p.id # dragState[1].plantId
        /\ lastOp'.op \in {"move", "up"})
       => (dragState' = <<>> /\ bottlePlants' = bottlePlants)]_vars

----------------------------------------------------------------------------
(* C10 *)

\* C10 as stated: a spawn whose target surface cannot be obtained leaves the
\* live units, the bottle plants and the history as they were.
C10_AsStated ==
    [][(lastOp'.op = "spawn" /\ ~lastOp'.ok)
       => (/\ growers' = growers
           /\ bottlePlants' = bottlePlants
           /\ plantHistory' = plantHistory)]_vars

----------------------------------------------------------------------------
(* C6 *)

\* C6: with no branch drawn and nothing else interleaved, after one spawn on
\* the outside canvas with maxLife L the live set holds that one unit after
\* every number k < L+50 of frames and is empty after L+50 frames.
C6_ScenarioA ==
    plantHistory # <<>> =>
        LET L == plantHistory[1].settings.maxLife
        IN  /\ clock < L + Grace =>
                  (Len(growers) = 1 /\ growers[1].id = 1 /\ growers[1].life = clock)
            /\ clock >= L + Grace => growers = <<>>

\* the frame number L+50 has just emptied the live set
C6_Witness ==
    /\ plantHistory # <<>>
    /\ clock = plantHistory[1].settings.maxLife + Grace
    /\ growers = <<>>
    /\ lastOp.op = "tick" /\ lastOp.removed # {}

----------------------------------------------------------------------------
(* C11 *)

\* every required field of a genome is present and in range
WellFormed(g) ==
    /\ g.stemColorStart # ""
    /\ g.type \in PlantTypes
    /\ g.baseWidth > 0
    /\ g.growthSpeed > 0
    /\ g.maxLife > 0
    /\ g.flowerProbability \in 0..100

\* C11 as stated: a genome with a missing or out-of-range required field is
\* rejected at the import and never applied, not even in part: where every
\* other genome supplied is well formed, the live genome, the genome of
\* every unit and plant and every history item stay well formed.
C11_AsStated ==
    /\ WellFormed(settings)
    /\ \A g \in Range(growers) : WellFormed(g.settings)
    /\ \A p \in Range(bottlePlants) : WellFormed(p.settings)
    /\ \A h \in Range(plantHistory) : WellFormed(h.settings)

----------------------------------------------------------------------------
(* C12, C13 *)

\* the history items nearer than the radius to the point of the copy c
WithinRadius(c) ==
    {i \in 1..Len(plantHistory) :
        DistSq(plantHistory[i], c.x, c.y) < CopyRadius * CopyRadius}

\* C12: a copy at a point with no history item within distance 100, the
\* empty history included, yields the live genome, never an absent value.
C12_Fallback ==
    [][lastOp'.op = "copy" =>
          /\ clipboard' # <<>>
          /\ WithinRadius(clipboard'[1]) = {} => clipboard'[1].genome = settings]_vars

\* a copy has fallen back to the live genome although the history is not
\* empty
C12_Witness ==
    /\ lastOp.op = "copy"
    /\ plantHistory # <<>>
    /\ WithinRadius(clipboard[1]) = {}
    /\ clipboard[1].genome = settings

\* C13: a copy at a point with a history item within the radius yields the
\* genome of a history item whose distance to the point is minimal among all
\* history items.
C13_Nearest ==
    [][(lastOp'.op = "copy" /\ WithinRadius(clipboard'[1]) # {})
       => \E i \in 1..Len(plantHistory) :
             /\ clipboard'[1].genome = plantHistory[i].settings
             /\ \A j \in 1..Len(plantHistory) :
                   DistSq(plantHistory[i], clipboard'[1].x, clipboard'[1].y)
                       <= DistSq(plantHistory[j], clipboard'[1].x, clipboard'[1].y)]_vars

\* a copy has picked the nearer of two items within the radius that carry
\* different genomes, the nearer one being the later
C13_Witness ==
    /\ lastOp.op = "copy"
    /\ \E i, j \in 1..Len(plantHistory) :
          /\ j < i
          /\ DistSq(plantHistory[i], clipboard[1].x, clipboard[1].y)
                 < DistSq(plantHistory[j], clipboard[1].x, clipboard[1].y)
          /\ j \in WithinRadius(clipboard[1])
          /\ plantHistory[i].settings # plantHistory[j].settings
          /\ clipboard[1].genome = plantHistory[i].settings
          /\ \A k \in 1..Len(plantHistory) :
                DistSq(plantHistory[i], clipboard[1].x, clipboard[1].y)
                    <= DistSq(plantHistory[k], clipboard[1].x, clipboard[1].y)

----------------------------------------------------------------------------
(* C14 *)

\* C14: the history never holds more than 50 items; a spawn appends its item
\* and evicts the oldest when that would exceed 50, and nothing else changes
\* the history, so that after n spawns (the n-th at x = n) the history is
\* the spawns n - min(n,50) + 1 .. n in order.
C14_HistoryCap ==
    /\ [](/\ Len(plantHistory) <= HistoryCap
          /\ Len(plantHistory) = Min(SpawnsSoFar, HistoryCap)
          /\ \A i \in 1..Len(plantHistory) :
                plantHistory[i].x = SpawnsSoFar - Len(plantHistory) + i)
    /\ [][IF lastOp'.op = "spawn"
          THEN /\ Last(plantHistory') = [x |-> SpawnsSoFar + 1, y |-> 100,
                                         settings |-> GenomeA]
               /\ Front(plantHistory') =
                     IF Len(plantHistory) = HistoryCap
                     THEN Tail(plantHistory) ELSE plantHistory
          ELSE plantHistory' = plantHistory]_vars

\* the 51st spawn has evicted the first
C14_Witness ==
    /\ lastOp.op = "spawn"
    /\ Len(plantHistory) = HistoryCap
    /\ plantHistory[1].x = 2
    /\ Last(plantHistory).x = HistoryCap + 1

----------------------------------------------------------------------------
(* C15 *)

\* C15: whatever is done to the live genome, a live unit keeps its genome,
\* maxAge, width and speed; a branch gets the genome of its parent, with the
\* maxAge and width that genome gives its generation; and the history items
\* stay as they were written.
C15_Snapshot ==
    [][/\ \A g \in Range(growers), h \in Range(growers') :
             h.id = g.id =>
                /\ h.settings = g.settings /\ h.maxLife = g.maxLife
                /\ h.width = g.width /\ h.speed = g.speed
       /\ \A k \in Range(growers') :
             (k.id \notin Ids(growers) /\ k.generation > 0) =>
                \E q \in Range(growers) :
                   /\ k.ctx = q.ctx /\ k.generation = q.generation + 1
                   /\ k.settings = q.settings
                   /\ k.speed = q.settings.growthSpeed
                   /\ k.maxLife = GrowerMaxLife(q.settings, k.generation)
                   /\ k.width = GrowerWidth(q.settings, k.generation)
       /\ \A i \in 1..Len(plantHistory) : plantHistory'[i] = plantHistory[i]]_vars

\* the live genome was edited after a spawn from it, and a unit of that spawn
\* has branched since: the branch carries the genome of the spawn
C15_Witness ==
    /\ lastOp.op = "tick"
    /\ \E k, q \in Range(growers) :
          /\ k.generation = q.generation + 1 /\ k.ctx = q.ctx /\ k.life = 0
          /\ k.settings = q.settings
          /\ q.settings = GenomeA
          /\ settings \in EditedGenomes

----------------------------------------------------------------------------
(* C16 *)

\* C16 as stated: in the state right after undo() the containment view shows
\* no content of the removed plant: every image with content in the view is
\* that of a plant that still exists.
C16_AsStated ==
    lastOp.op = "undo" =>
        \A k \in 1..Len(inside) :
            inside[k].image # {} =>
                \E p \in Range(bottlePlants) : p.id = inside[k].plant

----------------------------------------------------------------------------
(* C17 *)

\* C17: only the clear command removes content of the outside canvas: every
\* other step (a frame, a spawn, an undo, a pointer event, set-bounds) leaves
\* every mark that is on it.
C17_OutsideGrows ==
    [][lastOp'.op # "clear" => outside \subseteq outside']_vars

\* the units that drew on the outside canvas are gone, removed by a frame,
\* and their marks are still there
C17_Witness ==
    /\ lastOp.op = "tick" /\ lastOp.removed # {}
    /\ outside # {}
    /\ \A g \in Range(growers) : g.ctx # OutCtx

----------------------------------------------------------------------------
(* C18 *)

\* C18: no two bottle plants share a private surface, and every live unit
\* draws on the outside canvas or on the private surface of a bottle plant
\* that exists.
C18_Surfaces ==
    /\ \A i, j \in 1..Len(bottlePlants) :
          i # j => bottlePlants[i].ctx # bottlePlants[j].ctx
    /\ \A g \in Range(growers) :
          g.ctx = OutCtx \/ \E p \in Range(bottlePlants) : p.ctx = g.ctx

\* an undo has removed the units of one plant while another plant keeps a
\* unit that has branched
C18_Witness ==
    /\ lastOp.op = "undo" /\ lastOp.removed # {}
    /\ Len(bottlePlants) = 1
    /\ \E g, h \in Range(growers) :
          /\ g.ctx = bottlePlants[1].ctx /\ h.ctx = bottlePlants[1].ctx
          /\ g.generation = 0 /\ h.generation = 1

----------------------------------------------------------------------------
(* C19 *)

\* the hit test for a plant and a pointer position on the canvas, written out
HitTest(p, x, y) ==
    /\ x - p.currentX < HitRadius /\ p.currentX - x < HitRadius
    /\ p.y - HitHeight < y /\ y < p.y

\* the step is a pointer-down that spawned: the history item it wrote tells
\* where the pointer was
DownSpawned == lastOp'.op = "down" /\ plantHistory' # plantHistory

\* the step is a pointer-down that did not spawn
DownHeld == lastOp'.op = "down" /\ plantHistory' = plantHistory

\* the parts of C19 that do not depend on the outside surface: a
\* pointer-down that does not spawn begins a drag session on a plant that
\* passes the hit test at the pointer (all pointer-downs here are at height
\* 50) and creates nothing; one that spawns was on no plant and leaves the
\* plants and the session alone.
DownEitherOr ==
    /\ DownHeld =>
          /\ dragState' # <<>>
          /\ \E p \in Range(bottlePlants) :
                /\ p.id = dragState'[1].plantId
                /\ dragState'[1].plantStartX = p.currentX
                /\ HitTest(p, dragState'[1].startX, 50)
          /\ growers' = growers /\ bottlePlants' = bottlePlants
    /\ DownSpawned =>
          /\ \A p \in Range(bottlePlants) :
                ~HitTest(p, Last(plantHistory').x, Last(plantHistory').y)
          /\ dragState' = dragState /\ bottlePlants' = bottlePlants

\* the pointer-down that spawned created exactly one unit, of generation 0,
\* on the outside canvas, at the pointer
DownSpawnedOne ==
    /\ Len(growers') = Len(growers) + 1
    /\ SubSeq(growers', 1, Len(growers)) = growers
    /\ Last(growers').generation = 0 /\ Last(growers').ctx = OutCtx
    /\ Last(growers').x = Last(plantHistory').x
    /\ Last(growers').y = Last(plantHistory').y

\* C19 as stated: a pointer-down begins a drag session iff a plant passes the
\* hit test, and otherwise spawns exactly one generation-0 unit on the
\* outside canvas; never both, and nothing is created on a hit.
C19_AsStated ==
    [][DownEitherOr /\ (DownSpawned => DownSpawnedOne)]_vars

\* C19 amended: as stated, but on a miss exactly one generation-0 unit is
\* created on the outside canvas when that canvas yields a context, and no
\* unit when it does not.
C19_HitOrSpawn ==
    [][/\ DownEitherOr
       /\ DownSpawned => IF outCtxOk THEN DownSpawnedOne ELSE growers' = growers]_vars

\* a pointer-down 40 px beside a plant has missed it and spawned outside,
\* with no session begun
C19_Witness ==
    /\ lastOp.op = "down"
    /\ dragState = <<>>
    /\ \E p \in Range(bottlePlants) :
          /\ Abs(Last(plantHistory).x - p.currentX) = HitRadius
          /\ Last(plantHistory).y < p.y
    /\ growers # <<>> /\ Last(growers).ctx = OutCtx
    /\ Last(growers).x = Last(plantHistory).x

(* C20 *)

\* the step creates nothing: no unit, no contained plant, no history item
CreatesNothing ==
    /\ Len(growers') <= Len(growers)
    /\ Len(bottlePlants') <= Len(bottlePlants)
    /\ plantHistory' = plantHistory

\* C20, first half: while a drag session is active no pointer-move creates
\* a unit, a contained plant or a history item.
MoveInSessionCreatesNothing ==
    (dragState # <<>> /\ lastOp'.op = "move") => CreatesNothing

\* C20, second half: while a drag session is active no pointer gesture
\* spawns; a pointer-down or pointer-move spawns only when no session is
\* active.
GestureInSessionCreatesNothing ==
    (dragState # <<>> /\ lastOp'.op \in {"down", "move"}) => CreatesNothing

\* C20 as stated: during an active drag session no pointer-move creates a
\* unit, a contained plant or a history item, and no pointer gesture spawns
\* until the session has ended.
C20_AsStated ==
    [][MoveInSessionCreatesNothing /\ GestureInSessionCreatesNothing]_vars

----------------------------------------------------------------------------
(* C21 *)

\* the drag sessions a pointer-down at a position of PtrXs can begin
DragSessions ==
    {[plantId |-> p.id, startX |-> sx, plantStartX |-> p.currentX] :
        p \in Range(bottlePlants), sx \in PtrXs}

\* the step is a set-bounds call with the rectangle r that is already
\* registered
SetBoundsAgain(r) ==
    /\ lastOp'.op = "setBounds"
    /\ bottleRect = <<r>>
    /\ bottleRect' = BoundsAfter(r)

\* C21: a set-bounds call with the rectangle that is already registered
\* leaves the registered bounds as they are, changes nothing else, and every
\* drag input is clamped to the same currentX after it as before it.
C21_Idempotent ==
    [][\A r \in Rects : SetBoundsAgain(r) =>
          /\ bottleRect' = bottleRect
          /\ UNCHANGED <<growers, bottlePlants, plantHistory, dragState, canvasLeft>>
          /\ \A d \in DragSessions, x \in PtrXs : DraggedX(d, x)' = DraggedX(d, x)]_vars

\* set-bounds has just been called with {left:0,right:300} during a drag
\* session whose plant already stands clamped to these bounds
C21_Witness ==
    /\ lastOp.op = "setBounds"
    /\ dragState # <<>>
    /\ canvasLeft = 0
    /\ bottleRect = <<[left |-> 0, right |-> 300]>>
    /\ \E p \in Range(bottlePlants) : p.id = dragState[1].plantId /\ p.currentX = 280

----------------------------------------------------------------------------
(* C22 *)

\* the marks on the surface a unit of context ctx draws on: the outside
\* canvas, or the canvas of the plant that owns ctx
SurfaceOf(ctx) ==
    IF ctx = OutCtx THEN outside
    ELSE UNION {p.canvas : p \in {q \in Range(bottlePlants) : q.ctx = ctx}}

\* the stem segments and leaves the step added to that surface
NewStrokes(ctx) ==
    {m \in SurfaceOf(ctx)' \ SurfaceOf(ctx) : m.kind \in {"stem", "leaf"}}

\* a frame leaves the TERMINAL unit g where it is, one frame older, or
\* removes it when that age has reached maxAge+50
TerminalStep(g) ==
    IF PastGrace(g, g.life + 1)
    THEN /\ g.id \notin Ids(growers')
         /\ \E r \in lastOp'.removed : r.id = g.id /\ r.life = g.life + 1
    ELSE \E h \in Range(growers') :
            /\ h.id = g.id
            /\ h.x = g.x /\ h.y = g.y /\ h.angle = g.angle
            /\ h.life = g.life + 1

\* every stem segment and leaf the step drew starts at a GROWING unit of
\* the surface, and every unit it created is the branch of a GROWING unit
OnlyGrowingDraws ==
    /\ \A g \in Range(growers) : \A m \in NewStrokes(g.ctx) :
          \E q \in Range(growers) :
             ~IsTerminal(q) /\ q.ctx = g.ctx /\ q.x = m.x /\ q.y = m.y
    /\ \A k \in Range(growers') :
          k.id \notin Ids(growers) =>
             \E p \in Range(growers) : ~IsTerminal(p) /\ BranchedFrom(k, p)

\* C22: every frame leaves a TERMINAL unit in the live set with position and
\* heading unchanged and its age one higher, until the frame in which its
\* age reaches maxAge+50, at whose end it is removed; a TERMINAL unit draws
\* no stem segment, no leaf and no branch.
C22_TerminalLingers ==
    [][lastOp'.op = "tick" =>
          /\ \A g \in Range(growers) : IsTerminal(g) => TerminalStep(g)
          /\ OnlyGrowingDraws]_vars

\* a frame has just removed, at the end of its grace, a branch that was
\* thinner than 0.1 from its creation and still is where it was created
C22_Witness ==
    /\ lastOp.op = "tick"
    /\ \E r \in lastOp.removed :
          /\ r.width < Scale /\ r.generation = 1
          /\ PastGrace(r, r.life) /\ ~PastGrace(r, r.life - 1)
          /\ r.x = plantHistory[1].x /\ r.y = plantHistory[1].y

----------------------------------------------------------------------------
(* C23 *)

\* the unit k is as createGrower made it in this frame: a branch of a unit p
\* that was GROWING, at the position p had, heading one step to a side of
\* the heading p leaves the frame with, and not yet stepped
Unstepped(k) ==
    /\ k.life = 0 /\ ~k.hasAttemptedFlower
    /\ \E p \in Range(growers) :
          /\ ~IsTerminal(p) /\ BranchedFrom(k, p)
          /\ \E q \in Range(growers') \cup lastOp'.removed :
                q.id = p.id /\ k.angle \in {(q.angle + 1) % 8, (q.angle + 7) % 8}

\* the frame stepped the unit g for the first time
FirstStep(g) ==
    \E h \in Range(growers') \cup lastOp'.removed :
        /\ h.id = g.id /\ h.life = 1
        /\ IF IsTerminal(g)
           THEN h.hasAttemptedFlower /\ h.x = g.x /\ h.y = g.y
           ELSE h.x = g.x + Cos(h.angle) * g.speed /\ h.y = g.y + Sin(h.angle) * g.speed

\* C23: a unit created by a branch event of a frame is not stepped in that
\* frame: at its end the unit is live with age 0 at its creation position
\* and heading; the next frame steps it for the first time.
C23_NotStepped ==
    [][lastOp'.op = "tick" =>
          /\ \A k \in Range(growers') : k.id \notin Ids(growers) => Unstepped(k)
          /\ \A g \in Range(growers) : g.life = 0 => FirstStep(g)]_vars

\* a frame has just created a branch of generation 2, not stepped, and
\* stepped for the first time its parent, the branch the frame before created
C23_Witness ==
    /\ lastOp.op = "tick"
    /\ \E k, p \in Range(growers) :
          /\ k.generation = 2 /\ k.life = 0
          /\ p.generation = 1 /\ p.life = 1 /\ p.ctx = k.ctx
          /\ (p.x # k.x \/ p.y # k.y)

----------------------------------------------------------------------------
(* C24 *)

\* the inside view holds one image per plant of ps, in order, each the
\* plant's canvas at offset (currentX - originX, 0)
ViewShows(view, ps) ==
    /\ Len(view) = Len(ps)
    /\ \A k \in 1..Len(ps) :
          /\ view[k].plant = ps[k].id
          /\ view[k].dx = ps[k].currentX - ps[k].originX
          /\ view[k].dy = 0
          /\ view[k].image = ps[k].canvas

\* the image k of the inside view holds the stem segment that the frame drew
\* for every unit that was GROWING on the canvas of plant k
ViewHasStrokes(k) ==
    \A g \in Range(growers) :
        (~IsTerminal(g) /\ g.ctx = bottlePlants[k].ctx) =>
            \E m \in inside'[k].image : m.kind = "stem" /\ m.x = g.x /\ m.y = g.y

----------------------------------------------------------------------------
(* C25 *)

\* the unit k was created by a branch event of the unit p, at the position p
\* has after the frame has advanced it
BranchedAtAdvanced(k, p) ==
    /\ k.generation = p.generation + 1
    /\ k.ctx = p.ctx /\ k.settings = p.settings
    /\ \E q \in Range(growers') \cup lastOp'.removed :
          q.id = p.id /\ k.x = q.x /\ k.y = q.y

\* C25 as stated: a branch created in a frame starts at the position its
\* parent has after that frame's advance, with the parent's genome and
\* surface and the parent's generation + 1.
C25_AsStated ==
    [][lastOp'.op = "tick" =>
          \A k \in Range(growers') :
             k.id \notin Ids(growers) =>
                \E p \in Range(growers) : BranchedAtAdvanced(k, p)]_vars

----------------------------------------------------------------------------
(* C26 *)

\* every order in which n units can be stepped
Orders(n) == {f \in [1..n -> 1..n] : \A i, j \in 1..n : f[i] = f[j] => i = j}

\* the units of an array as a frame leaves them, the ones it created (those
\* after the first n) without their ids
Units(arr, n) ==
    {IF i > n THEN [arr[i] EXCEPT !.id = 0] ELSE arr[i] : i \in 1..Len(arr)}

\* two arrays hold the same units after a frame, keep the same and drop the same
SameOutcome(a, b, n) ==
    /\ Len(a) = Len(b)
    /\ Units(a, n) = Units(b, n)
    /\ Units(SelectSeq(a, KeepAlive), n) = Units(SelectSeq(b, KeepAlive), n)

\* C26: for fixed random outcomes of every unit, stepping the live units in
\* any order leaves every unit in the state in which the frame leaves it, and
\* creates and removes the same units.
C26_AnyOrder ==
    \A chs \in ChoiceSeqs(growers) : \A order \in Orders(Len(growers)) :
        SameOutcome(ForEachIn(growers, chs, order),
                    AfterForEach(growers, chs, nextId), Len(growers))

\* a frame has just stepped a stem that has turned and its branch, both
\* GROWING, and the branch has branched
C26_Witness ==
    /\ lastOp.op = "tick"
    /\ Len(growers) = 3
    /\ growers[1].life = 2 /\ growers[1].angle # BaseAngle
    /\ growers[2].life = 1 /\ growers[2].generation = 1
    /\ growers[3].life = 0 /\ growers[3].generation = 2

----------------------------------------------------------------------------
(* C30 *)

\* the step leaves maxAge and width of the unit as they were and its age no
\* lower, and a unit that was TERMINAL is TERMINAL after it, where it was
StaysTerminal(g, h) ==
    /\ h.maxLife = g.maxLife /\ h.width = g.width
    /\ h.life >= g.life
    /\ IsTerminal(g) => (IsTerminal(h) /\ h.x = g.x /\ h.y = g.y /\ h.angle = g.angle)

\* C30: maxAge and width of a unit never change and its age never decreases,
\* so a unit that is TERMINAL stays TERMINAL, and where it is, in every later
\* state until it is removed; a unit created with width < 0.1 is TERMINAL
\* from its first frame on and never moves.
C30_Absorbing ==
    [][\A g \in Range(growers) : \A h \in Range(growers') :
          h.id = g.id => StaysTerminal(g, h)]_vars

\* a branch created with width < 0.1 has been stepped once, before its age
\* reached its maxAge: it has attempted its bloom and is where it was created
C30_Witness ==
    \E g \in Range(growers) :
        /\ g.width < Scale /\ g.life = 1 /\ g.maxLife > 0
        /\ g.hasAttemptedFlower
        /\ g.x = plantHistory[1].x /\ g.y = plantHistory[1].y

----------------------------------------------------------------------------
(* C27 *)

\* the step changes no plant but in the currentX of the plant of the drag
\* session, and no unit, no history item and no surface
OnlyDraggedMoves ==
    /\ growers' = growers
    /\ plantHistory' = plantHistory
    /\ outside' = outside /\ inside' = inside
    /\ Len(bottlePlants') = Len(bottlePlants)
    /\ \A k \in 1..Len(bottlePlants) :
          IF bottlePlants[k].id = dragState[1].plantId
          THEN bottlePlants'[k] = [bottlePlants[k] EXCEPT !.currentX = bottlePlants'[k].currentX]
          ELSE bottlePlants'[k] = bottlePlants[k]

\* C27 as stated: a pointer-down, pointer-move or pointer-up during a drag
\* session changes only the session and the currentX of the dragged plant;
\* every plant's originX, y and canvas, every other plant's currentX and
\* every unit stay as they are.
C27_AsStated ==
    [][(dragState # <<>> /\ lastOp'.op \in {"down", "move", "up"}) =>
          OnlyDraggedMoves]_vars

----------------------------------------------------------------------------
(* C28 *)

\* the units of gs that do not draw on the surface ctx, in their order
NotOn(gs, ctx) == SelectSeq(gs, LAMBDA g : g.ctx # ctx)

\* C28: undo() removes the newest bottle plant and the units of its surface
\* and changes nothing else: the other plants, the units of every other
\* surface, the history, the registered bounds and the outside canvas stay as
\* they are; with no bottle plant it changes nothing at all.
C28_UndoFrame ==
    [][lastOp'.op = "undo" =>
          /\ IF bottlePlants = <<>>
             THEN growers' = growers /\ bottlePlants' = bottlePlants
             ELSE /\ bottlePlants' = Front(bottlePlants)
                  /\ growers' = NotOn(growers, Last(bottlePlants).ctx)
          /\ UNCHANGED <<plantHistory, bottleRect, outside, dragState, settings,
                         inside, clipboard, canvasLeft, outCtxOk>>]_vars

\* undo() has just removed the newer of two bottle plants and its unit; the
\* older plant, its unit, a unit of the outside canvas and the registered
\* bounds are left
C28_Witness ==
    /\ lastOp.op = "undo" /\ lastOp.removed # {}
    /\ Len(bottlePlants) = 1
    /\ bottleRect # <<>>
    /\ \E g, h \in Range(growers) : g.ctx = OutCtx /\ h.ctx = bottlePlants[1].ctx

----------------------------------------------------------------------------
(* C29 *)

\* C29: the clear command removes every unit that draws on the outside
\* canvas and leaves every bottle plant, every unit of a bottle plant, the
\* history and the drag session as they are.
C29_ClearFrame ==
    [][lastOp'.op = "clear" =>
          /\ growers' = NotOn(growers, OutCtx)
          /\ UNCHANGED <<bottlePlants, plantHistory, dragState>>]_vars

\* clear has just removed a unit of the outside canvas during a drag session,
\* and the unit of the dragged plant is left
C29_Witness ==
    /\ lastOp.op = "clear" /\ lastOp.removed # {}
    /\ dragState # <<>>
    /\ \E p \in Range(bottlePlants) : \E g \in Range(growers) :
          p.id = dragState[1].plantId /\ g.ctx = p.ctx

----------------------------------------------------------------------------
(* C31 *)

\* the step spawns nothing: every call of spawnPlant pushes a history item
NoSpawn == plantHistory' = plantHistory

\* C31: if from some point on nothing is spawned, by the pointer or by the
\* spawn command, and the frames keep running, the live set becomes empty
\* and stays empty.
C31_Drains == (<>[][NoSpawn]_vars) => <>[](growers = <<>>)

\* a frame has just emptied the live set by removing the last unit, a branch
\* of generation 2 at the end of its grace
C31_Witness ==
    /\ lastOp.op = "tick"
    /\ growers = <<>>
    /\ \E r \in lastOp.removed : r.generation = 2 /\ PastGrace(r, r.life)

====
